---- MODULE Spec2Model ----
(***************************************************************************)
(* One coordinate-ascent pass of the variational updates for Bayesian      *)
(* variable selection: varbvsnormupdate_cpp and sigmoidcpp of              *)
(* varbvs-R/src/varbvsnormupdate_rcpp.cpp.                                 *)
(*                                                                         *)
(* Numbers.  A C++ double is modelled as a binary number of low precision: *)
(* either a finite value v * 2^-FracBits (k = "fin", v an integer) of      *)
(* magnitude at most 2^EMax, or one of the IEEE special values +inf, -inf, *)
(* NaN.  Every operation returns the exact result rounded to the nearest   *)
(* representable value (ties to even); a result above 2^EMax in magnitude  *)
(* becomes an infinity, a result below half a unit becomes zero, and the   *)
(* special values propagate as IEEE 754 prescribes.  Signed zeros are not  *)
(* distinguished (a zero divisor counts as +0).  exp and log are evaluated *)
(* to one binary order of magnitude: exp(y) is the largest power of two    *)
(* not above e^y (log2(e) taken as 13/9), log(x) is floor(log2 x) * 9/13.  *)
(* EMax plays the role of DBL_MAX_EXP, FracBits that of DBL_MANT_DIG.      *)
(***************************************************************************)
EXTENDS Integers, Sequences, FiniteSets, TLC

(* ------------------------------ bounds --------------------------------- *)
\* number of observations (rows of X)
N == 2
\* number of predictors (columns of X)
P == 2
\* longest update order a caller passes
MaxOrderLen == 2
\* number of successive calls of the pass on the same posterior state
MaxPasses == 2
\* exponent range of the modelled double
EMax == 8
\* fraction bits of the modelled double
FracBits == 7

(* ------------------------------ numbers -------------------------------- *)
Abs(x) == IF x < 0 THEN -x ELSE x

RECURSIVE Pow2(_)
Pow2(e) == IF e <= 0 THEN 1 ELSE 2 * Pow2(e - 1)

\* the unit: the value 1.0 is Scale units
Scale == Pow2(FracBits)

\* the largest finite magnitude, in units
MaxUnits == Pow2(EMax) * Scale

NaN == [k |-> "nan", v |-> 0]
PInf == [k |-> "pinf", v |-> 0]
NInf == [k |-> "ninf", v |-> 0]

\* n / dd for dd > 0, rounded to the nearest integer, ties to even
RoundDiv(n, dd) ==
  LET q == n \div dd
      r == n % dd
  IN  IF 2 * r < dd THEN q
      ELSE IF 2 * r > dd THEN q + 1
      ELSE IF q % 2 = 0 THEN q ELSE q + 1

\* the double of u units: an infinity outside the finite range
Units(u) ==
  IF u > MaxUnits THEN PInf
  ELSE IF u < -MaxUnits THEN NInf
  ELSE [k |-> "fin", v |-> u]

\* the double nearest to the rational n/dd (dd # 0)
Fin(n, dd) ==
  IF dd < 0 THEN Units(RoundDiv((-n) * Scale, -dd)) ELSE Units(RoundDiv(n * Scale, dd))

\* an integer-valued double
Num(z) == Units(z * Scale)

Zero == Num(0)
One == Num(1)
Two == Num(2)

IsNaN(a) == a.k = "nan"
IsInf(a) == a.k \in {"pinf", "ninf"}
IsFinite(a) == a.k = "fin"

Sign(a) ==
  IF a.k = "pinf" THEN 1
  ELSE IF a.k = "ninf" THEN -1
  ELSE IF a.k = "fin" /\ a.v > 0 THEN 1
  ELSE IF a.k = "fin" /\ a.v < 0 THEN -1
  ELSE 0

InfOf(s) == IF s > 0 THEN PInf ELSE NInf

\* unary minus
Neg(a) ==
  IF a.k = "pinf" THEN NInf
  ELSE IF a.k = "ninf" THEN PInf
  ELSE IF a.k = "nan" THEN NaN
  ELSE [k |-> "fin", v |-> -a.v]

\* a + b
FAdd(a, b) ==
  IF IsNaN(a) \/ IsNaN(b) THEN NaN
  ELSE IF IsInf(a) THEN (IF IsInf(b) /\ b.k # a.k THEN NaN ELSE a)
  ELSE IF IsInf(b) THEN b
  ELSE Units(a.v + b.v)

\* a - b
FSub(a, b) == FAdd(a, Neg(b))

\* a * b
FMul(a, b) ==
  IF IsNaN(a) \/ IsNaN(b) THEN NaN
  ELSE IF IsInf(a) \/ IsInf(b)
    THEN (IF Sign(a) * Sign(b) = 0 THEN NaN ELSE InfOf(Sign(a) * Sign(b)))
  ELSE IF a.v # 0 /\ Abs(b.v) > ((MaxUnits + 1) * Scale) \div Abs(a.v)
    THEN InfOf(Sign(a) * Sign(b))
  ELSE Units(RoundDiv(a.v * b.v, Scale))

\* a / b
FDiv(a, b) ==
  IF IsNaN(a) \/ IsNaN(b) THEN NaN
  ELSE IF IsInf(a) /\ IsInf(b) THEN NaN
  ELSE IF IsInf(a) THEN InfOf(Sign(a) * (IF Sign(b) < 0 THEN -1 ELSE 1))
  ELSE IF IsInf(b) THEN Zero
  ELSE IF b.v = 0 THEN (IF a.v = 0 THEN NaN ELSE InfOf(Sign(a)))
  ELSE IF b.v < 0 THEN Units(RoundDiv((-a.v) * Scale, -b.v))
  ELSE Units(RoundDiv(a.v * Scale, b.v))

\* a < b and a <= b as C++ compares doubles (false when either is NaN)
FLess(a, b) ==
  /\ ~IsNaN(a) /\ ~IsNaN(b)
  /\ a # b
  /\ \/ a.k = "ninf"
     \/ b.k = "pinf"
     \/ IsFinite(a) /\ IsFinite(b) /\ a.v < b.v

FLeq(a, b) == ~IsNaN(a) /\ ~IsNaN(b) /\ (a = b \/ FLess(a, b))

\* exp(a)
Exp(a) ==
  IF IsNaN(a) THEN NaN
  ELSE IF a.k = "pinf" THEN PInf
  ELSE IF a.k = "ninf" THEN Zero
  ELSE LET e == (13 * a.v) \div (9 * Scale)
       IN  IF e > EMax THEN PInf
           ELSE IF e < -(FracBits + 1) THEN Zero
           ELSE IF e >= 0 THEN Fin(Pow2(e), 1)
           ELSE Fin(1, Pow2(-e))

\* floor(log2(n/dd)) for n, dd > 0
RECURSIVE FloorLog2(_, _)
FloorLog2(n, dd) ==
  IF n >= 2 * dd THEN 1 + FloorLog2(n, 2 * dd)
  ELSE IF n < dd THEN FloorLog2(2 * n, dd) - 1
  ELSE 0

\* log(a)
Log(a) ==
  IF IsNaN(a) \/ a.k = "ninf" THEN NaN
  ELSE IF a.k = "pinf" THEN PInf
  ELSE IF a.v < 0 THEN NaN
  ELSE IF a.v = 0 THEN NInf
  ELSE Fin(9 * FloorLog2(a.v, Scale), 13)

(* ------------------------------ sigmoidcpp ----------------------------- *)
\* return (1 / (1 + exp(-x)));
sigmoidcpp(x) == FDiv(One, FAdd(One, Exp(Neg(x))))

(* --------------------------- vectors and matrices ---------------------- *)
Rows == 0 .. (N - 1)
Cols == 0 .. (P - 1)

\* sum(a * b) of two n-vectors: Rcpp's sugar sum accumulates from 0.0 in
\* row order.
RECURSIVE SumProd(_, _, _)
SumProd(a, b, n) ==
  IF n = 0 THEN Zero ELSE FAdd(SumProd(a, b, n - 1), FMul(a[n - 1], b[n - 1]))

\* X %*% (alpha * mu): the fitted values the caller passes as Xr (line 27).
RECURSIVE FittedRow(_, _, _, _, _)
FittedRow(Xm, al, m, row, p) ==
  IF p = 0 THEN Zero
  ELSE FAdd(FittedRow(Xm, al, m, row, p - 1),
            FMul(Xm[p - 1][row], FMul(al[p - 1], m[p - 1])))

Fitted(Xm, al, m) == [row \in Rows |-> FittedRow(Xm, al, m, row, P)]

\* diag(t(X) %*% X) (line 24) and t(X) %*% y (line 23)
GramDiag(Xm) == [j \in Cols |-> SumProd(Xm[j], Xm[j], N)]
CrossProd(Xm, y) == [j \in Cols |-> SumProd(Xm[j], y, N)]

(* --------------------------- one loop iteration ------------------------ *)
\* StepS with the "+ 1" of the divisor left out
StepS_NoPlusOne(sa_, sigma_, dj) == FDiv(FMul(sa_, sigma_), FMul(sa_, dj))

\* line 46: double s = sa * sigma / (sa * d[j] + 1);
StepS(sa_, sigma_, dj) == FDiv(FMul(sa_, sigma_), FAdd(FMul(sa_, dj), One))

\* line 49: double r = alpha[j] * mu[j];
StepR(aj, mj) == FMul(aj, mj)

\* StepPartial with the "d[j] * r" term left out
StepPartial_NoSelf(xyj, dj, r, col, Xr_) == FSub(xyj, SumProd(col, Xr_, N))

\* line 50, the bracket: xy[j] + d[j] * r - sum(X.column(j) * Xr)
StepPartial(xyj, dj, r, col, Xr_) ==
  FSub(FAdd(xyj, FMul(dj, r)), SumProd(col, Xr_, N))

\* line 50: mu[j] = s / sigma * (...)
StepMu(s, sigma_, partial) == FMul(FDiv(s, sigma_), partial)

\* line 53: alpha[j] = sigmoidcpp(logodds[j] + (log(s / (sa * sigma)) + pow(mu[j], 2) / s) / 2);
StepAlpha(loj, s, sa_, sigma_, muj) ==
  sigmoidcpp(FAdd(loj, FDiv(FAdd(Log(FDiv(s, FMul(sa_, sigma_))),
                                 FDiv(FMul(muj, muj), s)), Two)))

\* StepXr with the "- r" left out: the whole new contribution is added
StepXr_NoSub(Xr_, aj, mj, r, col) ==
  [row \in Rows |-> FAdd(Xr_[row], FMul(FMul(aj, mj), col[row]))]

\* line 56: Xr = Xr + (alpha[j] * mu[j] - r) * X.column(j);  Xr has the
\* length of the column, so Rcpp assigns the sugar expression element by
\* element into the vector the caller passed.
StepXr(Xr_, aj, mj, r, col) ==
  [row \in Rows |-> FAdd(Xr_[row], FMul(FSub(FMul(aj, mj), r), col[row]))]

\* Store that assigns the whole vector (mu = ... for mu[j] = ...)
Store_All(vec, j, v) == [k \in DOMAIN vec |-> v]

\* mu[j] = ... and alpha[j] = ...: a store into one element
Store(vec, j, v) == [vec EXCEPT ![j] = v]

\* Lines 46-50 for a valid index j: the value stored into mu[j].  in holds
\* the read-only arguments, st the vectors alpha, mu and Xr.
NewMu(in, st, j) ==
  StepMu(StepS(in.sa, in.sigma, in.d[j]), in.sigma,
         StepPartial(in.xy[j], in.d[j], StepR(st.alpha[j], st.mu[j]), in.X[j], st.Xr))

\* Lines 43-56 for a valid index j.
Update(in, st, j) ==
  LET s == StepS(in.sa, in.sigma, in.d[j])
      r == StepR(st.alpha[j], st.mu[j])
      m == NewMu(in, st, j)
      a == StepAlpha(in.logodds[j], s, in.sa, in.sigma, m)
  IN  [alpha |-> Store(st.alpha, j, a),
       mu |-> Store(st.mu, j, m),
       Xr |-> StepXr(st.Xr, a, m, r, in.X[j])]

\* LoopCond that stops one entry early
LoopCond_OffByOne(idx, ord) == idx < Len(ord) - 1

\* line 40: index < i.size()
LoopCond(idx, ord) == idx < Len(ord)

\* The loop run on the order ord from st: the vectors after the first k
\* iterations.
RECURSIVE Sweep(_, _, _, _)
Sweep(in, st, ord, k) ==
  IF k = 0 THEN st ELSE Update(in, Sweep(in, st, ord, k - 1), ord[k])

(* ------------------------------ the callers ---------------------------- *)
RECURSIVE SeqsUpTo(_, _)
SeqsUpTo(S, n) ==
  IF n = 0 THEN {<<>>}
  ELSE LET shorter == SeqsUpTo(S, n - 1)
       IN  shorter \cup {Append(q, x) : q \in {t \in shorter : Len(t) = n - 1}, x \in S}

\* predictor columns: all zero, all one, +1 in the first row only, -1 in
\* the last row only
ColPatterns ==
  << [row \in Rows |-> Zero],
     [row \in Rows |-> One],
     [row \in Rows |-> IF row = 0 THEN One ELSE Zero],
     [row \in Rows |-> IF row = N - 1 THEN Num(-1) ELSE Zero] >>

\* design matrices: column j is pattern a + b j (cyclically), which gives
\* every pair of patterns for the first two columns
Designs ==
  { [j \in Cols |-> ColPatterns[1 + ((a + b * j) % Len(ColPatterns))]] :
    a \in 0 .. (Len(ColPatterns) - 1), b \in 0 .. (Len(ColPatterns) - 1) }

\* responses
YPatterns == { [row \in Rows |-> IF row = 0 THEN Two ELSE Num(-1)] }

\* prior log-odds; exp(10) is above the finite range
LogoddsPatterns ==
  { [j \in Cols |-> Zero],
    [j \in Cols |-> IF j = 0 THEN Num(-10) ELSE One] }

\* posterior state at the first call: a cold start and a warm start
StartPatterns ==
  { [alpha |-> [j \in Cols |-> Zero], mu |-> [j \in Cols |-> Zero]],
    [alpha |-> [j \in Cols |-> Fin(1, 2)],
     mu |-> [j \in Cols |-> IF j = 0 THEN One ELSE Num(-1)]] }

\* <<sigma, sa>> as documented (lines 20-21: positive), of moderate size
GoodScales == { <<One, One>>, <<Two, One>>, <<One, Two>> }

\* <<sigma, sa>> positive but with a product above the finite range
HugeScales == { <<Num(32), Num(32)>> }

\* <<sigma, sa>> that break the documented precondition
BadScales == { <<Zero, One>>, <<Num(-1), One>>, <<One, Num(-1)>> }

\* The arguments of a call; d, xy and Xr are what the parameter comments
\* (lines 23, 24, 27) say they are.
Inputs(scales) ==
  { [X |-> Xm, sigma |-> sc[1], sa |-> sc[2], logodds |-> lo,
     xy |-> CrossProd(Xm, y), d |-> GramDiag(Xm),
     alpha |-> st.alpha, mu |-> st.mu, Xr |-> Fitted(Xm, st.alpha, st.mu)] :
    Xm \in Designs, y \in YPatterns, sc \in scales,
    lo \in LogoddsPatterns, st \in StartPatterns }

(* ------------------------------ the state ------------------------------ *)
VARIABLES
  X, sigma, sa, logodds, xy, d,   \* the read-only arguments
  alpha, mu, Xr,                  \* the vectors the pass updates in place
  i, index,                       \* the order of the running call, the loop counter
  pc,                             \* "idle", "loop", "done", "error", "crash"
  err,                            \* the exception that ended the call
  idxs,                           \* the index values the caller puts into an order
  alpha0, mu0, Xr0,               \* alpha, mu, Xr at entry to the running call
  steps,                          \* loop bodies completed by the running call
  passes                          \* calls made so far

vars == <<X, sigma, sa, logodds, xy, d, alpha, mu, Xr, i, index, pc, err,
          idxs, alpha0, mu0, Xr0, steps, passes>>

args == <<X, sigma, sa, logodds, xy, d>>

\* the read-only arguments and the vectors, as records
In == [X |-> X, sigma |-> sigma, sa |-> sa, logodds |-> logodds, xy |-> xy, d |-> d]
Cur == [alpha |-> alpha, mu |-> mu, Xr |-> Xr]
Entry == [alpha |-> alpha0, mu |-> mu0, Xr |-> Xr0]

InitFrom(inputs, indices) ==
  /\ \E in \in inputs :
       /\ X = in.X /\ sigma = in.sigma /\ sa = in.sa /\ logodds = in.logodds
       /\ xy = in.xy /\ d = in.d
       /\ alpha = in.alpha /\ mu = in.mu /\ Xr = in.Xr
       /\ alpha0 = in.alpha /\ mu0 = in.mu /\ Xr0 = in.Xr
  /\ idxs = indices
  /\ i = <<>> /\ index = 0 /\ pc = "idle" /\ err = "none"
  /\ steps = 0 /\ passes = 0

\* callers that keep the documented preconditions, with moderate values
Init == InitFrom(Inputs(GoodScales), Cols)

\* every caller: also scales that are not positive or are huge, and also
\* orders with entries outside 0 .. p-1
InitWide == InitFrom(Inputs(GoodScales \cup HugeScales \cup BadScales), (-1) .. P)

Reverse(q) == [k \in 1 .. Len(q) |-> q[Len(q) + 1 - k]]

\* The caller invokes varbvsnormupdate_cpp with an order: control is at the
\* loop head of line 40.  The first call takes any order; a later call
\* (the next iteration of the caller's outer loop, warm-started from the
\* vectors the previous call left) sweeps in the same or the reverse order.
Call ==
  /\ pc \in {"idle", "done"}
  /\ passes < MaxPasses
  /\ IF passes = 0
       THEN \E ord \in SeqsUpTo(idxs, MaxOrderLen) : i' = ord
       ELSE i' \in {i, Reverse(i)}
  /\ index' = 0 /\ steps' = 0 /\ passes' = passes + 1
  /\ pc' = "loop"
  /\ alpha0' = alpha /\ mu0' = mu /\ Xr0' = Xr
  /\ UNCHANGED <<args, alpha, mu, Xr, err, idxs>>

\* One iteration of the loop, lines 40-57.  For j outside 0 .. p-1 the reads
\* d[j], alpha[j], mu[j] of lines 46 and 49 are out of bounds (undefined
\* behaviour: they yield some value or end the process); the values are
\* used by nothing before X.column(j) on line 50, which Rcpp bounds-checks
\* and which throws index_out_of_bounds before line 50 stores into mu[j].
Step ==
  /\ pc = "loop"
  /\ LoopCond(index, i)
  /\ LET j == i[index + 1]
     IN  IF j \in Cols
           THEN /\ LET nxt == Update(In, Cur, j)
                   IN  alpha' = nxt.alpha /\ mu' = nxt.mu /\ Xr' = nxt.Xr
                /\ index' = index + 1
                /\ steps' = steps + 1
                /\ UNCHANGED <<pc, err>>
           ELSE /\ \/ pc' = "error" /\ err' = "index_out_of_bounds"
                   \/ pc' = "crash" /\ err' = "none"
                /\ UNCHANGED <<alpha, mu, Xr, index, steps>>
  /\ UNCHANGED <<args, i, idxs, alpha0, mu0, Xr0, passes>>

\* The loop condition fails: the function returns (line 58).
Return ==
  /\ pc = "loop"
  /\ ~LoopCond(index, i)
  /\ pc' = "done"
  /\ UNCHANGED <<args, alpha, mu, Xr, i, index, err, idxs, alpha0, mu0, Xr0,
                 steps, passes>>

Next == Call \/ Step \/ Return

Spec == Init /\ [][Next]_vars

SpecWide == InitWide /\ [][Next]_vars

(* ------------------------------ properties ----------------------------- *)
\* the index the next iteration updates
NextJ == i[index + 1]
AtStep == pc = "loop" /\ LoopCond(index, i)
AscendingOrder == [k \in 1 .. P |-> k - 1]
InUnit(a) == FLeq(Zero, a) /\ FLeq(a, One)
ValidScales == FLess(Zero, sigma) /\ FLess(Zero, sa)
HasBadIndex == \E q \in 1 .. Len(i) : i[q] \notin Cols

\* C1: Xr equals X (alpha * mu) at entry, after every completed iteration of
\* every order (subsets and repeats included) and on exit.
C1_XrIsFitted == Xr = Fitted(X, alpha, mu)

C1_Witness ==
  /\ pc = "done" /\ steps = 2 /\ i[1] = i[2]
  /\ Xr # Xr0
  /\ \A row \in Rows : Xr[row] # Zero

\* C2 as claimed: a call with sigma <= 0 or sa <= 0 is rejected at entry:
\* it runs no iteration, does not return normally, and alpha, mu, Xr stay as
\* they were.
C2_RejectedAtEntry ==
  (pc # "idle" /\ ~ValidScales) =>
    /\ steps = 0 /\ pc # "done"
    /\ Cur = Entry

\* C3 as claimed: an order with an entry outside 0 .. p-1 is rejected before
\* anything is changed: no iteration runs, the valid entries before the bad
\* one are not applied.
C3_NoPartialSweep ==
  (pc # "idle" /\ ValidScales /\ HasBadIndex) =>
    /\ steps = 0 /\ pc # "done"
    /\ Cur = Entry

\* C4: an iteration for index j leaves X, xy, d, logodds, sigma, sa and every
\* alpha[k], mu[k] with k # j as they were; hence alpha[k], mu[k] of every k
\* not among the entries processed are those at entry.
C4_Untouched ==
  pc \in {"loop", "done"} =>
    \A k \in Cols :
      (\A q \in 1 .. index : i[q] # k) => alpha[k] = alpha0[k] /\ mu[k] = mu0[k]

C4_StepWrites ==
  /\ args' = args
  /\ steps' = steps + 1 =>
       \A k \in Cols \ {NextJ} : alpha'[k] = alpha[k] /\ mu'[k] = mu[k]
  /\ steps' # steps + 1 => alpha' = alpha /\ mu' = mu /\ Xr' = Xr

C4_Frame == []C4_Untouched /\ [][C4_StepWrites]_vars

C4_Witness ==
  /\ pc = "done" /\ steps >= 1
  /\ \E k \in Cols :
       /\ \A q \in 1 .. Len(i) : i[q] # k
       /\ alpha[k] # Zero /\ mu[k] # Zero
       /\ \E j \in Cols \ {k} : alpha[j] # alpha0[j] /\ mu[j] # mu0[j]

\* C5 as claimed: with sigma > 0, sa > 0, finite arguments and valid
\* indices, every alpha[j] is in [0, 1] in every state.
C5_AlphaInUnit ==
  (ValidScales /\ ~HasBadIndex) => \A j \in Cols : InUnit(alpha[j])

\* C6: when a sweep over 0, 1, .., p-1 has left alpha and mu as they were at
\* entry, it has left Xr as it was too, and the same sweep run again from
\* there changes none of alpha, mu, Xr.
C6_FixedPoint ==
  (pc = "done" /\ i = AscendingOrder /\ alpha = alpha0 /\ mu = mu0) =>
    /\ Xr = Xr0
    /\ Sweep(In, Cur, AscendingOrder, P) = Cur

C6_Witness ==
  /\ pc = "done" /\ i = AscendingOrder /\ alpha = alpha0 /\ mu = mu0
  /\ passes = 2
  /\ \A j \in Cols : alpha[j] # Zero /\ mu[j] # Zero /\ d[j] # Zero

\* sum over k < p, k # j, of alpha[k] mu[k] (column j . column k)
RECURSIVE OthersFit(_, _)
OthersFit(j, p) ==
  IF p = 0 THEN Zero
  ELSE FAdd(OthersFit(j, p - 1),
            IF p - 1 = j THEN Zero
            ELSE FMul(FMul(alpha[p - 1], mu[p - 1]), SumProd(X[j], X[p - 1], N)))

\* the vectors with alpha[j], mu[j] replaced and Xr the fitted values of that
WithOwn(j, a, m) ==
  [alpha |-> [alpha EXCEPT ![j] = a], mu |-> [mu EXCEPT ![j] = m],
   Xr |-> Fitted(X, [alpha EXCEPT ![j] = a], [mu EXCEPT ![j] = m])]

OwnValues == {<<Fin(1, 4), Fin(3, 2)>>, <<One, Zero>>, <<One, Num(-2)>>}

\* the preconditions of the cancellation, at the start of an iteration
C7_Pre ==
  /\ AtStep
  /\ Xr = Fitted(X, alpha, mu)
  /\ d[NextJ] = SumProd(X[NextJ], X[NextJ], N)

\* C7: when Xr = X (alpha * mu) and d[j] is the sum of squares of column j at
\* the start of the iteration for j, the bracket of line 50 equals xy[j]
\* minus the other predictors' contributions, and the mu[j] the iteration
\* stores is the same whatever alpha[j] and mu[j] were before.
C7_LeaveOneOut ==
  C7_Pre =>
    /\ StepPartial(xy[NextJ], d[NextJ], StepR(alpha[NextJ], mu[NextJ]), X[NextJ], Xr)
         = FSub(xy[NextJ], OthersFit(NextJ, P))
    /\ LET m == NewMu(In, Cur, NextJ)
       IN  \A own \in OwnValues : NewMu(In, WithOwn(NextJ, own[1], own[2]), NextJ) = m

C7_Witness ==
  /\ C7_Pre /\ steps >= 1
  /\ d[NextJ] # Zero
  /\ StepR(alpha[NextJ], mu[NextJ]) # Zero
  /\ OthersFit(NextJ, P) # Zero
  /\ NewMu(In, Cur, NextJ) # mu[NextJ]

C9_Pre == AtStep /\ ValidScales /\ FLeq(Zero, d[NextJ])

C10_Sequential ==
  pc \in {"loop", "done"} =>
    /\ steps = index /\ index <= Len(i)
    /\ Cur = Sweep(In, Entry, i, index)
    /\ pc = "done" => steps = Len(i)

C10_Progress ==
  pc = "loop" =>
    \/ pc' = "done" /\ steps' = steps /\ steps = Len(i)
    \/ pc' = "loop" /\ i' = i /\ Len(i) - index' = Len(i) - index - 1

C10_Terminates == []C10_Sequential /\ [][C10_Progress]_vars

C10_Witness ==
  /\ pc = "done" /\ steps = 2 /\ i[1] # i[2]
  /\ Sweep(In, Entry, i, 1) # Entry
  /\ Cur # Sweep(In, Entry, i, 1)

====
